---- MODULE Spec2Model ----
(***************************************************************************)
(* NYC taxi dashboard (Streamlit): app.py (landing page, polars) and       *)
(* pages/Graphs.py (filters and five charts, pandas).                      *)
(*                                                                         *)
(* A state is the working directory (the two cached files), the            *)
(* st.cache_data memos of the server process, and the outcome of the last  *)
(* script run.  One action is one complete run of a page's script.         *)
(*                                                                         *)
(* Numbers: timestamps are minutes since 2024-01-01 00:00 (a Monday);      *)
(* money and miles are whole numbers.                                      *)
(***************************************************************************)
EXTENDS Integers, Sequences, FiniteSets, TLC

VARIABLES files, memo, loadMemo, raw, calls, page

vars == <<files, memo, loadMemo, raw, calls, page>>

-----------------------------------------------------------------------------
(* Bounds of the model *)

\* longest raw trip table made of the trips load_data keeps
MaxRows == 2

\* longest raw trip table made of any trips; these are also the tables
\* explored from a working directory that lacks a file
MaxShortRows == 1

-----------------------------------------------------------------------------
(* Special values of a column *)

\* a missing value: pandas NaN / NaT / None, polars null
NULL == -1000
\* polars keeps NaN apart from null (fill_null does not touch it)
NAN == -2000
\* IEEE infinity, the result of x / 0 for x > 0
INF == 1000000
\* the selectbox entry 'All'
ALL == -1

MinutesPerDay == 1440
MinutesPerHour == 60

Min(a, b) == IF a <= b THEN a ELSE b

-----------------------------------------------------------------------------
(* The raw trip records the model draws from: three trips that differ in   *)
(* every column a filter reads, and trips that differ from the first in    *)
(* the one or two columns a cleaning rule or the tip percentage reads.     *)

BaseRow ==
    [pickup |-> 0, dropoff |-> 10, PULocationID |-> 1, DOLocationID |-> 1,
     passenger_count |-> 1, trip_distance |-> 2, fare_amount |-> 10,
     tip_amount |-> 5, payment_type |-> 1]

\* Monday 23:00
LateRow ==
    [pickup |-> 1380, dropoff |-> 1390, PULocationID |-> 2, DOLocationID |-> 1,
     passenger_count |-> 2, trip_distance |-> 5, fare_amount |-> 20,
     tip_amount |-> 5, payment_type |-> 2]

\* Sunday 08:00, no passenger count, a payment code outside the map
SundayRow ==
    [pickup |-> 9120, dropoff |-> 9130, PULocationID |-> 3, DOLocationID |-> 1,
     passenger_count |-> NULL, trip_distance |-> 2, fare_amount |-> 10,
     tip_amount |-> 0, payment_type |-> 0]

\* trips the cleaning of Graphs.py keeps
TripRows ==
    {BaseRow, LateRow, SundayRow,
     [BaseRow EXCEPT !.PULocationID = NULL],
     [BaseRow EXCEPT !.trip_distance = 0]}

RowUniverse ==
    TripRows
    \cup {[BaseRow EXCEPT !.pickup = NULL]}
    \cup {[BaseRow EXCEPT !.dropoff = 0]}
    \cup {[BaseRow EXCEPT !.fare_amount = f] : f \in {0, 500, NULL}}
    \cup {[BaseRow EXCEPT !.fare_amount = 0, !.tip_amount = 0]}

Tables(rows, n) == UNION {[1..k -> rows] : k \in 0..n}

\* taxi_zone_lookup.csv as served: id 3 has no entry
ZoneLookupFile == [LocationID \in {1, 2} |-> IF LocationID = 1 THEN "Newark Airport" ELSE "Jamaica Bay"]

-----------------------------------------------------------------------------
(* Derived columns *)

Hour(t) == IF t = NULL THEN NULL ELSE (t % MinutesPerDay) \div MinutesPerHour

Date(t) == IF t = NULL THEN NULL ELSE t \div MinutesPerDay

\* 0 = Monday; day 0 of the model's clock is a Monday
Weekday(t) == IF t = NULL THEN NULL ELSE (t \div MinutesPerDay) % 7

Duration(pickup, dropoff) ==
    IF pickup = NULL \/ dropoff = NULL THEN NULL ELSE dropoff - pickup

\* pandas float division: NaN propagates, 0/0 is NaN, x/0 is +-inf
PdDivTimes100(tip, fare) ==
    IF tip = NULL \/ fare = NULL THEN NULL
    ELSE IF fare = 0 THEN (IF tip = 0 THEN NULL ELSE IF tip > 0 THEN INF ELSE -INF)
    ELSE (tip * 100) \div fare

PdFillna0(x) == IF x = NULL THEN 0 ELSE x

\* Graphs.py line 64
PdTipPct(tip, fare) == PdFillna0(PdDivTimes100(tip, fare))

\* polars float division: null propagates, 0/0 is NaN (not null), x/0 is +-inf
PlDivTimes100(tip, fare) ==
    IF tip = NULL \/ fare = NULL THEN NULL
    ELSE IF fare = 0 THEN (IF tip = 0 THEN NAN ELSE IF tip > 0 THEN INF ELSE -INF)
    ELSE (tip * 100) \div fare

PlFillNull0(x) == IF x = NULL THEN 0 ELSE x

\* app.py line 67
PlTipPct(tip, fare) == PlFillNull0(PlDivTimes100(tip, fare))

NoLabel == "NaN"

payment_map(code) ==
    CASE code = 1 -> "Credit Card"
      [] code = 2 -> "Cash"
      [] code = 3 -> "No Charge"
      [] code = 4 -> "Dispute"
      [] code = 5 -> "Unknown"
      [] OTHER -> NoLabel

\* a row as read from the file, with the frame's index label
Indexed(table) == [i \in 1..Len(table) |->
    [idx |-> i - 1,
     pickup |-> table[i].pickup, dropoff |-> table[i].dropoff,
     PULocationID |-> table[i].PULocationID, DOLocationID |-> table[i].DOLocationID,
     passenger_count |-> table[i].passenger_count,
     trip_distance |-> table[i].trip_distance,
     fare_amount |-> table[i].fare_amount, tip_amount |-> table[i].tip_amount,
     payment_type |-> table[i].payment_type]]

Derive(r, tip_pct, payment_name) ==
    [idx |-> r.idx, pickup |-> r.pickup, dropoff |-> r.dropoff,
     PULocationID |-> r.PULocationID, DOLocationID |-> r.DOLocationID,
     passenger_count |-> r.passenger_count, trip_distance |-> r.trip_distance,
     fare_amount |-> r.fare_amount, tip_amount |-> r.tip_amount,
     payment_type |-> r.payment_type,
     pickup_hour |-> Hour(r.pickup), pickup_weekday |-> Weekday(r.pickup),
     pickup_date |-> Date(r.pickup),
     trip_duration_min |-> Duration(r.pickup, r.dropoff),
     tip_pct |-> tip_pct, payment_name |-> payment_name]

\* Graphs.py lines 58-64 and 72-73
GraphsDerive(r) ==
    Derive(r, PdTipPct(r.tip_amount, r.fare_amount), payment_map(r.payment_type))

\* app.py lines 62-68 (the landing page makes no payment label)
AppDerive(r) ==
    Derive(r, PlTipPct(r.tip_amount, r.fare_amount), NoLabel)

-----------------------------------------------------------------------------
(* Cleaning.  A comparison with a missing value is false. *)

FareInRange(r) == r.fare_amount # NULL /\ r.fare_amount > 0 /\ r.fare_amount < 500

DurationInRange(r) ==
    r.trip_duration_min # NULL /\ r.trip_duration_min > 1 /\ r.trip_duration_min < 180

\* Graphs.py lines 66-67
GraphsKeeps(r) == FareInRange(r) /\ DurationInRange(r)

\* app.py line 70
AppNoNulls(r) ==
    /\ r.pickup # NULL
    /\ r.dropoff # NULL
    /\ r.PULocationID # NULL
    /\ r.DOLocationID # NULL
    /\ r.fare_amount # NULL

\* app.py lines 70-73
AppKeeps(r) ==
    /\ AppNoNulls(r)
    /\ r.trip_distance # NULL /\ r.trip_distance > 0
    /\ FareInRange(r)
    /\ r.dropoff > r.pickup

\* the frame of Graphs.py with its derived columns, lines 52-64 and 72-73
GraphsDerived(table) == [i \in 1..Len(table) |-> GraphsDerive(Indexed(table)[i])]

\* the frame of app.py with its derived columns, lines 60-68
AppDerived(table) == [i \in 1..Len(table) |-> AppDerive(Indexed(table)[i])]

\* load_data's frame, Graphs.py lines 52-73
GraphsClean(table) == SelectSeq(GraphsDerived(table), GraphsKeeps)

\* app.py lines 60-73
AppClean(table) == SelectSeq(AppDerived(table), AppKeeps)

-----------------------------------------------------------------------------
(* Dataset fetcher: download_file under @st.cache_data *)

FileNames == {"trip", "zone"}

\* what a request can come to
Outcomes == {"ok", "http_error", "net_error"}

MemoKeys == {"app:trip", "graphs:trip", "graphs:zone"}

\* body of app.py's download_file, lines 42-56: no status check, no handler
AppDownloadBody(fs, name, outcome) ==
    IF fs[name] = "absent"
    THEN CASE outcome = "net_error" ->
                \* requests.get raises; nothing is opened
                [files |-> fs, ret |-> "raised", requested |-> TRUE]
           [] outcome = "http_error" ->
                \* response.content (the error body) is written all the same
                [files |-> [fs EXCEPT ![name] = "errbody"], ret |-> "True", requested |-> TRUE]
           [] OTHER ->
                [files |-> [fs EXCEPT ![name] = "data"], ret |-> "True", requested |-> TRUE]
    ELSE [files |-> fs, ret |-> "False", requested |-> FALSE]

\* body of Graphs.py's download_file, lines 23-39
GraphsDownloadBody(fs, name, outcome) ==
    IF fs[name] = "absent"
    THEN IF outcome = "ok"
         THEN [files |-> [fs EXCEPT ![name] = "data"], ret |-> "True", requested |-> TRUE]
         \* get or raise_for_status raises before open(); st.error, st.stop
         ELSE [files |-> fs, ret |-> "stopped", requested |-> TRUE]
    ELSE [files |-> fs, ret |-> "False", requested |-> FALSE]

\* @st.cache_data: a call whose arguments were seen before returns the stored
\* value without running the body; a body that raises stores nothing
CacheData(prog, name, fs, mm, body) ==
    LET key == prog \o ":" \o name IN
    IF mm[key] # "none"
    THEN [files |-> fs, memo |-> mm,
          call |-> [prog |-> prog, file |-> name, before |-> fs[name], after |-> fs[name],
                    memo_hit |-> TRUE, requested |-> FALSE, outcome |-> "none",
                    ret |-> mm[key]]]
    ELSE [files |-> body.files,
          memo |-> IF body.ret \in {"True", "False"} THEN [mm EXCEPT ![key] = body.ret] ELSE mm,
          call |-> [prog |-> prog, file |-> name, before |-> fs[name],
                    after |-> body.files[name],
                    memo_hit |-> FALSE, requested |-> body.requested,
                    outcome |-> IF body.requested THEN body.outcome ELSE "none",
                    ret |-> body.ret]]

WithOutcome(body, outcome) ==
    [files |-> body.files, ret |-> body.ret, requested |-> body.requested, outcome |-> outcome]

\* app.py lines 40-56
AppDownloadFile(fs, mm, name, outcome) ==
    CacheData("app", name, fs, mm, WithOutcome(AppDownloadBody(fs, name, outcome), outcome))

\* Graphs.py lines 21-39
GraphsDownloadFile(fs, mm, name, outcome) ==
    CacheData("graphs", name, fs, mm, WithOutcome(GraphsDownloadBody(fs, name, outcome), outcome))

\* whether the call returned to its caller
Returned(call) == call.ret \in {"True", "False"}

-----------------------------------------------------------------------------
(* load_data of Graphs.py, lines 41-75, under @st.cache_data *)

NoLoad == [set |-> FALSE, df |-> <<>>, zone_lookup |-> <<>>]

LoadDataBody(fs, mm, table, ot, oz) ==
    LET d1 == GraphsDownloadFile(fs, mm, "trip", ot)
        d2 == GraphsDownloadFile(d1.files, d1.memo, "zone", oz)
    IN  IF ~Returned(d1.call)
        THEN [files |-> d1.files, memo |-> d1.memo, calls |-> <<d1.call>>,
              status |-> "stopped", read_started |-> FALSE,
              derived |-> <<>>, df |-> <<>>, zone_lookup |-> <<>>]
        ELSE IF ~Returned(d2.call)
        THEN [files |-> d2.files, memo |-> d2.memo, calls |-> <<d1.call, d2.call>>,
              status |-> "stopped", read_started |-> FALSE,
              derived |-> <<>>, df |-> <<>>, zone_lookup |-> <<>>]
        ELSE IF d2.files["trip"] # "data" \/ d2.files["zone"] # "data"
        \* read_parquet / read_csv raises on a file that is not the dataset
        THEN [files |-> d2.files, memo |-> d2.memo, calls |-> <<d1.call, d2.call>>,
              status |-> "read_error", read_started |-> TRUE,
              derived |-> <<>>, df |-> <<>>, zone_lookup |-> <<>>]
        ELSE [files |-> d2.files, memo |-> d2.memo, calls |-> <<d1.call, d2.call>>,
              status |-> "ok", read_started |-> TRUE,
              derived |-> GraphsDerived(table),
              df |-> GraphsClean(table), zone_lookup |-> ZoneLookupFile]

load_data(fs, mm, lm, table, ot, oz) ==
    IF lm.set
    THEN [files |-> fs, memo |-> mm, loadMemo |-> lm, calls |-> <<>>,
          status |-> "ok", read_started |-> FALSE,
          derived |-> <<>>, df |-> lm.df, zone_lookup |-> lm.zone_lookup]
    ELSE LET b == LoadDataBody(fs, mm, table, ot, oz) IN
         [files |-> b.files, memo |-> b.memo,
          loadMemo |-> IF b.status = "ok"
                       THEN [set |-> TRUE, df |-> b.df, zone_lookup |-> b.zone_lookup]
                       ELSE lm,
          calls |-> b.calls, status |-> b.status, read_started |-> b.read_started,
          derived |-> b.derived, df |-> b.df, zone_lookup |-> b.zone_lookup]

-----------------------------------------------------------------------------
(* Sidebar widgets of Graphs.py, lines 83-136: what a user can select *)

Rows(f) == {f[i] : i \in 1..Len(f)}

SetMin(S) == CHOOSE x \in S : \A y \in S : x <= y

SetMax(S) == CHOOSE x \in S : \A y \in S : y <= x

\* lines 84-85; min() of an empty column is missing
min_date(df) == IF Len(df) = 0 THEN NULL ELSE SetMin({r.pickup_date : r \in Rows(df)})

max_date(df) == IF Len(df) = 0 THEN NULL ELSE SetMax({r.pickup_date : r \in Rows(df)})

\* line 87: a (start, end) pair, or a lone date
DateInputs(df) ==
    IF Len(df) = 0
    THEN {[is_pair |-> TRUE, lo |-> NULL, hi |-> NULL]}
    ELSE {[is_pair |-> TRUE, lo |-> min_date(df), hi |-> max_date(df)],
          [is_pair |-> FALSE, lo |-> min_date(df), hi |-> min_date(df)]}

\* line 109
passenger_options(df) ==
    {ALL} \cup ({r.passenger_count : r \in Rows(df)} \ {NULL})

\* line 131
payment_options(df) == {r.payment_name : r \in Rows(df)} \ {NoLabel}

HourInputs == {<<0, 23>>, <<1, 22>>, <<23, 23>>}

FareInputs == {<<0, 300>>, <<11, 300>>}

DistInputs == {<<0, 30>>, <<3, 30>>}

\* the values the widgets start with
DefaultDate(df) == [is_pair |-> TRUE, lo |-> min_date(df), hi |-> max_date(df)]

Selection(date_range, hours, passengers, fares, dists, payments) ==
    [date_range |-> date_range,
     hour_min |-> hours[1], hour_max |-> hours[2],
     selected_passengers |-> passengers,
     fare_min |-> fares[1], fare_max |-> fares[2],
     dist_min |-> dists[1], dist_max |-> dists[2],
     selected_payments |-> payments]

\* one widget moved off its default, with the payment selection given
OneMoved(df, pay) ==
    {Selection(d, <<0, 23>>, ALL, <<0, 300>>, <<0, 30>>, pay) : d \in DateInputs(df)}
    \cup {Selection(DefaultDate(df), h, ALL, <<0, 300>>, <<0, 30>>, pay) : h \in HourInputs}
    \cup {Selection(DefaultDate(df), <<0, 23>>, n, <<0, 300>>, <<0, 30>>, pay) :
             n \in passenger_options(df)}
    \cup {Selection(DefaultDate(df), <<0, 23>>, ALL, f, <<0, 30>>, pay) : f \in FareInputs}
    \cup {Selection(DefaultDate(df), <<0, 23>>, ALL, <<0, 300>>, m, pay) : m \in DistInputs}

\* the selections explored: every payment selection with the other widgets at
\* their defaults, and every single move with all payments and with none
Configs(df) ==
    {Selection(DefaultDate(df), <<0, 23>>, ALL, <<0, 300>>, <<0, 30>>, pay) :
        pay \in SUBSET payment_options(df)}
    \cup OneMoved(df, payment_options(df))
    \cup OneMoved(df, {})

\* lines 94-97
start_date(cfg) == cfg.date_range.lo

end_date(cfg) == IF cfg.date_range.is_pair THEN cfg.date_range.hi ELSE cfg.date_range.lo

-----------------------------------------------------------------------------
(* Filter engine, Graphs.py lines 140-155 *)

\* x >= lo & x <= hi on a column that may hold missing values
Between(x, lo, hi) == x # NULL /\ lo # NULL /\ hi # NULL /\ x >= lo /\ x <= hi

\* the mask with the upper end of the hour range left out (< for <=)
MaskHourMaxExclusive(r, cfg) ==
    /\ Between(r.pickup_date, start_date(cfg), end_date(cfg))
    /\ Between(r.pickup_hour, cfg.hour_min, cfg.hour_max - 1)
    /\ Between(r.fare_amount, cfg.fare_min, cfg.fare_max)
    /\ Between(r.trip_distance, cfg.dist_min, cfg.dist_max)

\* the boolean mask of lines 140-149
Mask(r, cfg) ==
    /\ Between(r.pickup_date, start_date(cfg), end_date(cfg))
    /\ Between(r.pickup_hour, cfg.hour_min, cfg.hour_max)
    /\ Between(r.fare_amount, cfg.fare_min, cfg.fare_max)
    /\ Between(r.trip_distance, cfg.dist_min, cfg.dist_max)

\* lines 151-152
PassengerStep(f, cfg) ==
    IF cfg.selected_passengers # ALL
    THEN SelectSeq(f, LAMBDA r : r.passenger_count = cfg.selected_passengers)
    ELSE f

\* lines 154-155
PaymentStep(f, cfg) ==
    IF cfg.selected_payments # {}
    THEN SelectSeq(f, LAMBDA r : r.payment_name \in cfg.selected_payments)
    ELSE f

filtered_df(df, cfg) ==
    PaymentStep(PassengerStep(SelectSeq(df, LAMBDA r : Mask(r, cfg)), cfg), cfg)

-----------------------------------------------------------------------------
(* Chart aggregates, Graphs.py lines 170-269 *)

RECURSIVE SortedSeq(_)
\* the members of a set of numbers in ascending order
SortedSeq(S) ==
    IF S = {} THEN <<>>
    ELSE LET m == SetMin(S) IN <<m>> \o SortedSeq(S \ {m})

RECURSIVE SumFares(_)
SumFares(f) == IF Len(f) = 0 THEN 0 ELSE Head(f).fare_amount + SumFares(Tail(f))

\* tab1, line 174: value_counts of an object column leaves missing labels out
payment_counts(f) ==
    [l \in {r.payment_name : r \in Rows(f)} \ {NoLabel} |->
        Cardinality({i \in 1..Len(f) : f[i].payment_name = l})]

RECURSIVE SortedDistances(_)
\* the distances in ascending order, with repetitions
SortedDistances(f) ==
    IF Len(f) = 0 THEN <<>>
    ELSE LET m == SetMin({r.trip_distance : r \in Rows(f)})
             k == CHOOSE i \in 1..Len(f) : f[i].trip_distance = m
         IN  <<m>> \o SortedDistances(SubSeq(f, 1, k - 1) \o SubSeq(f, k + 1, Len(f)))

\* tab2, line 201: twice the median, to stay in whole numbers
median_x2(f) ==
    LET d == SortedDistances(f)
        n == Len(d)
    IN  IF n % 2 = 1 THEN 2 * d[(n + 1) \div 2] ELSE d[n \div 2] + d[n \div 2 + 1]

\* tab3, line 213: the mean per hour present, as sum and count
hourly_fare(f) ==
    [h \in {r.pickup_hour : r \in Rows(f)} |->
        LET g == SelectSeq(f, LAMBDA r : r.pickup_hour = h)
        IN  [sum |-> SumFares(g), n |-> Len(g)]]

\* tab4, line 230: groupby(...).size().unstack(fill_value=0)
Unstack(f) ==
    LET pairs == {<<r.pickup_weekday, r.pickup_hour>> : r \in Rows(f)}
        index == SortedSeq({q[1] : q \in pairs})
        columns == SortedSeq({q[2] : q \in pairs})
    IN  [index |-> index, columns |-> columns,
         data |-> [i \in 1..Len(index) |-> [j \in 1..Len(columns) |->
            IF <<index[i], columns[j]>> \in pairs
            THEN Cardinality({k \in 1..Len(f) : f[k].pickup_weekday = index[i]
                                                /\ f[k].pickup_hour = columns[j]})
            ELSE 0]]]

Range0(n) == [i \in 1..n |-> i - 1]

\* line 231: reindex(columns=range(24), fill_value=0)
ReindexColumns(frame) ==
    LET new == Range0(24) IN
    [index |-> frame.index, columns |-> new,
     data |-> [i \in 1..Len(frame.index) |-> [j \in 1..Len(new) |->
        IF \E k \in 1..Len(frame.columns) : frame.columns[k] = new[j]
        THEN frame.data[i][CHOOSE k \in 1..Len(frame.columns) : frame.columns[k] = new[j]]
        ELSE 0]]]

\* the frame with line 232 left out: only the weekdays that have trips
ReindexIndexLeftOut(frame) == frame

\* line 232: reindex(index=range(7), fill_value=0)
ReindexIndex(frame) ==
    LET new == Range0(7) IN
    [index |-> new, columns |-> frame.columns,
     data |-> [i \in 1..Len(new) |->
        IF \E k \in 1..Len(frame.index) : frame.index[k] = new[i]
        THEN frame.data[CHOOSE k \in 1..Len(frame.index) : frame.index[k] = new[i]]
        ELSE [j \in 1..Len(frame.columns) |-> 0]]]

weekday_names == <<"Mon", "Tue", "Wed", "Thu", "Fri", "Sat", "Sun">>

\* lines 234-235
RenameIndex(frame) ==
    [index |-> [i \in 1..Len(frame.index) |-> weekday_names[frame.index[i] + 1]],
     columns |-> frame.columns, data |-> frame.data]

\* tab4, lines 230-235
heatmap_data(f) == RenameIndex(ReindexIndex(ReindexColumns(Unstack(f))))

\* line 69: the categories of PULocationID are those of the cleaned frame
PUCategories(df) == {r.PULocationID : r \in Rows(df)} \ {NULL}

RECURSIVE ByCountDescending(_, _)
\* sort_values(ascending=False) of the per-category counts; equal counts stay
\* in category order
ByCountDescending(S, cnt) ==
    IF S = {} THEN <<>>
    ELSE LET best == CHOOSE z \in S : \A y \in S :
                         cnt[z] > cnt[y] \/ (cnt[z] = cnt[y] /\ z <= y)
         IN  <<best>> \o ByCountDescending(S \ {best}, cnt)

\* line 252-253: value_counts of a categorical column counts every category,
\* also those no row of the frame holds
zone_counts(f, categories) ==
    LET cnt == [z \in categories |-> Cardinality({i \in 1..Len(f) : f[i].PULocationID = z})]
        order == ByCountDescending(categories, cnt)
    IN  [i \in 1..Len(order) |-> [LocationID |-> order[i], trip_count |-> cnt[order[i]]]]

\* lines 254-255: left merge with the lookup, the id as text where no name is
WithZoneNames(zc, zone_lookup) ==
    [i \in 1..Len(zc) |->
        [LocationID |-> zc[i].LocationID, trip_count |-> zc[i].trip_count,
         Zone |-> IF zc[i].LocationID \in DOMAIN zone_lookup
                  THEN zone_lookup[zc[i].LocationID]
                  ELSE ToString(zc[i].LocationID)]]

TopN == 10

HeadN(s) == SubSeq(s, 1, Min(TopN, Len(s)))

RECURSIVE InsertByCount(_, _)
InsertByCount(sorted, e) ==
    IF Len(sorted) = 0 THEN <<e>>
    ELSE IF Head(sorted).trip_count <= e.trip_count
         THEN <<Head(sorted)>> \o InsertByCount(Tail(sorted), e)
         ELSE <<e>> \o sorted

RECURSIVE SortByCountAscending(_)
\* sort_values('trip_count', ascending=True); equal counts keep their order
SortByCountAscending(s) ==
    IF Len(s) = 0 THEN <<>>
    ELSE InsertByCount(SortByCountAscending(SubSeq(s, 1, Len(s) - 1)), s[Len(s)])

\* tab5, lines 252-256
top_zones(f, categories, zone_lookup) ==
    SortByCountAscending(HeadN(WithZoneNames(zone_counts(f, categories), zone_lookup)))

-----------------------------------------------------------------------------
(* One run of a page's script *)

Tabs == {"Pie Chart", "Histogram", "Line Graph", "Heatmap", "Bar Chart"}

\* a page before anything is on it
BlankPage(prog, status) ==
    [prog |-> prog, status |-> status, read_started |-> FALSE,
     derived |-> <<>>, df |-> <<>>, cfg |-> <<>>, filtered_df |-> <<>>,
     notice |-> "", computed |-> {},
     payment_counts |-> <<>>, median_x2 |-> 0, hourly_fare |-> <<>>,
     heatmap_data |-> <<>>, top_zones |-> <<>>, metrics |-> <<>>]

\* Graphs.py lines 140-269, with the widgets' values in cfg
Render(base, df, zone_lookup, cfg) ==
    LET f == filtered_df(df, cfg)
        shown == [base EXCEPT !.df = df, !.cfg = cfg, !.filtered_df = f]
    IN  IF Len(df) = 0
        \* line 159: len(filtered_df)/len(df) divides by zero
        THEN [shown EXCEPT !.status = "crashed", !.notice = "ZeroDivisionError"]
        ELSE IF Len(f) = 0
        \* lines 162-164
        THEN [shown EXCEPT !.status = "no_rows", !.notice = "No trips match those filters."]
        ELSE [shown EXCEPT !.status = "charts", !.computed = Tabs,
                           !.payment_counts = payment_counts(f),
                           !.median_x2 = median_x2(f),
                           !.hourly_fare = hourly_fare(f),
                           !.heatmap_data = heatmap_data(f),
                           !.top_zones = top_zones(f, PUCategories(df), zone_lookup)]

\* app.py lines 83-122; the mean of an empty column is None, which the
\* format of line 96 rejects
Metrics(base, df) ==
    IF Len(df) = 0
    THEN [base EXCEPT !.df = df, !.status = "crashed", !.notice = "TypeError"]
    ELSE [base EXCEPT !.df = df, !.status = "metrics",
                      !.metrics = [total_trips |-> Len(df),
                                   total_revenue |-> SumFares(df)]]

\* the server's table and the working directory at the start of the process
Init ==
    /\ \/ files = [n \in FileNames |-> "data"] /\ raw \in Tables(TripRows, MaxRows)
       \/ files \in [FileNames -> {"absent", "data"}] /\ raw \in Tables(RowUniverse, MaxShortRows)
    /\ memo = [k \in MemoKeys |-> "none"]
    /\ loadMemo = NoLoad
    /\ calls = <<>>
    /\ page = BlankPage("none", "idle")

\* the outcomes open to a call of download_file: those of a request when the
\* call makes one, else none
RequestOutcomes(prog, name, fs, mm) ==
    IF mm[prog \o ":" \o name] = "none" /\ fs[name] = "absent" THEN Outcomes ELSE {"none"}

\* a run of app.py
AppRun ==
    \E outcome \in RequestOutcomes("app", "trip", files, memo) :
    LET d == AppDownloadFile(files, memo, "trip", outcome) IN
    /\ files' = d.files
    /\ memo' = d.memo
    /\ calls' = <<d.call>>
    /\ page' =
        IF ~Returned(d.call)
        \* line 45 raised: the run ends with the exception on the page
        THEN [BlankPage("app", "exception") EXCEPT !.notice = "ConnectionError"]
        ELSE IF d.files["trip"] # "data"
        \* line 60: read_parquet raises on a file that is not the dataset
        THEN [BlankPage("app", "read_error") EXCEPT !.read_started = TRUE]
        ELSE Metrics([BlankPage("app", "") EXCEPT
                          !.read_started = TRUE,
                          !.derived = AppDerived(raw)],
                     AppClean(raw))
    /\ UNCHANGED <<loadMemo, raw>>

\* the outcomes open to the two calls load_data makes
LoadOutcomes ==
    IF loadMemo.set THEN {<<"none", "none">>}
    ELSE {<<ot, oz>> : ot \in RequestOutcomes("graphs", "trip", files, memo),
                       oz \in RequestOutcomes("graphs", "zone", files, memo)}

\* a run of pages/Graphs.py that load_data ends: a failed download (st.stop)
\* or a file that does not parse
GraphsRunStopped ==
    \E o \in LoadOutcomes :
    LET l == load_data(files, memo, loadMemo, raw, o[1], o[2]) IN
    /\ l.status # "ok"
    /\ Len(l.calls) = 1 => o[2] \in {"none", "ok"}
    /\ files' = l.files
    /\ memo' = l.memo
    /\ loadMemo' = l.loadMemo
    /\ calls' = l.calls
    /\ page' = [BlankPage("Graphs", l.status) EXCEPT
                   !.read_started = l.read_started,
                   !.notice = IF l.status = "stopped" THEN "Failed to download" ELSE ""]
    /\ UNCHANGED raw

\* a whole run of pages/Graphs.py
GraphsRun ==
    \E o \in LoadOutcomes :
    LET l == load_data(files, memo, loadMemo, raw, o[1], o[2]) IN
    /\ l.status = "ok"
    /\ files' = l.files
    /\ memo' = l.memo
    /\ loadMemo' = l.loadMemo
    /\ calls' = l.calls
    /\ \E cfg \in Configs(l.df) :
          page' = Render([BlankPage("Graphs", "") EXCEPT
                              !.read_started = l.read_started,
                              !.derived = l.derived],
                         l.df, l.zone_lookup, cfg)
    /\ UNCHANGED raw

Next ==
    \/ AppRun
    \/ GraphsRunStopped
    \/ GraphsRun

Spec == Init /\ [][Next]_vars

-----------------------------------------------------------------------------
(* Properties *)

\* the last run was a run of Graphs.py that got as far as filtering
Filtered == page.prog = "Graphs" /\ page.status \in {"crashed", "no_rows", "charts"}

\* the predicates of a selection, stated on one row
InDates(r, cfg) == r.pickup_date \in start_date(cfg)..end_date(cfg)

InHours(r, cfg) == r.pickup_hour \in cfg.hour_min..cfg.hour_max

InFares(r, cfg) == r.fare_amount \in cfg.fare_min..cfg.fare_max

InDistances(r, cfg) == r.trip_distance \in cfg.dist_min..cfg.dist_max

HasPassengers(r, cfg) == r.passenger_count = cfg.selected_passengers

HasPayment(r, cfg) == r.payment_name \in cfg.selected_payments

\* the passenger predicate is active unless 'All' is selected (line 151), the
\* payment predicate when at least one label is selected (line 154)
PassengersActive(cfg) == cfg.selected_passengers # ALL

PaymentsActive(cfg) == cfg.selected_payments # {}

SatisfiesAllActive(r, cfg) ==
    /\ InDates(r, cfg)
    /\ InHours(r, cfg)
    /\ InFares(r, cfg)
    /\ InDistances(r, cfg)
    /\ PassengersActive(cfg) => HasPassengers(r, cfg)
    /\ PaymentsActive(cfg) => HasPayment(r, cfg)

C2_EmptyPaymentsKeepNothing ==
    (Filtered /\ page.cfg.selected_payments = {}) => Len(page.filtered_df) = 0

\* a download_file call of the last run that asked the network and failed
FailedFetch(c) == c.before = "absent" /\ c.outcome \in {"http_error", "net_error"}

\* C3: when the file is absent and the fetch fails, the run halts with the
\* failure shown, no file is left at the cache path and the read of the file
\* never starts
C3_FailedFetchHalts ==
    \A i \in 1..Len(calls) :
        FailedFetch(calls[i]) =>
            /\ calls[i].after = "absent"
            /\ ~page.read_started
            /\ page.status \in {"exception", "stopped"}

\* C4: a call of download_file with the file present asks the network for
\* nothing, leaves the file as it is and returns False
C4_CacheHitReturnsFalse ==
    \A i \in 1..Len(calls) :
        calls[i].before # "absent" =>
            /\ ~calls[i].requested
            /\ calls[i].after = calls[i].before
            /\ calls[i].ret = "False"

\* C5: an empty filtered table gives the "no rows match" notice and no chart
\* aggregate, and the run does not crash on the way
C5_EmptyResultGivesNotice ==
    (Filtered /\ Len(page.filtered_df) = 0) =>
        /\ page.status = "no_rows"
        /\ page.notice = "No trips match those filters."
        /\ page.computed = {}

\* the last run built a cleaned table
Cleaned == page.status \in {"crashed", "no_rows", "charts", "metrics"}

CleanRow(r) ==
    /\ r.pickup # NULL /\ r.dropoff # NULL
    /\ r.PULocationID # NULL /\ r.DOLocationID # NULL
    /\ r.fare_amount # NULL /\ r.fare_amount > 0 /\ r.fare_amount < 500
    /\ r.trip_distance # NULL /\ r.trip_distance > 0
    /\ r.dropoff > r.pickup

\* C6: every row of a cleaned table has its timestamps, location ids and fare,
\* a fare in (0, 500), a positive distance and a dropoff after the pickup
C6_CleanedRowsAreClean ==
    Cleaned => \A r \in Rows(page.df) : CleanRow(r)

\* the pickup zones of a table and their trip counts
ZonesOf(f) == {r.PULocationID : r \in Rows(f)} \ {NULL}

TripsFrom(f, z) == Cardinality({i \in 1..Len(f) : f[i].PULocationID = z})

Listed(top) == {top[i].LocationID : i \in 1..Len(top)}

\* C7: the top-zones output lists exactly the (up to) 10 pickup zones of the
\* filtered table with the highest counts, each with its count, in ascending
\* order of count
C7_TopZonesAreTheBusiest ==
    page.status = "charts" =>
        LET f == page.filtered_df
            top == page.top_zones
        IN  /\ Listed(top) \subseteq ZonesOf(f)
            /\ Len(top) = Min(TopN, Cardinality(ZonesOf(f)))
            /\ Cardinality(Listed(top)) = Len(top)
            /\ \A i \in 1..Len(top) : top[i].trip_count = TripsFrom(f, top[i].LocationID)
            /\ \A z \in Listed(top) : \A y \in ZonesOf(f) \ Listed(top) :
                  TripsFrom(f, z) >= TripsFrom(f, y)
            /\ \A i \in 1..Len(top) : \A j \in i..Len(top) :
                  top[i].trip_count <= top[j].trip_count

\* C8: the heatmap has the 7 rows Mon..Sun in that order and the 24 columns
\* 0..23; each cell is the number of filtered trips of that weekday and hour,
\* 0 where there is none
C8_HeatmapIsSevenByTwentyFour ==
    page.status = "charts" =>
        LET h == page.heatmap_data
            f == page.filtered_df
        IN  /\ h.index = <<"Mon", "Tue", "Wed", "Thu", "Fri", "Sat", "Sun">>
            /\ h.columns = [j \in 1..24 |-> j - 1]
            /\ DOMAIN h.data = 1..7
            /\ \A i \in 1..7 :
                  /\ DOMAIN h.data[i] = 1..24
                  /\ \A j \in 1..24 :
                        h.data[i][j] = Cardinality({k \in 1..Len(f) :
                            f[k].pickup_weekday = i - 1 /\ f[k].pickup_hour = j - 1})

\* C8's case: trips on two weekdays at two hours, so that the grid of the
\* trips themselves has cells without a trip
C8_Witness ==
    /\ page.status = "charts"
    /\ page.heatmap_data.data[1][1] >= 1
    /\ page.heatmap_data.data[7][9] >= 1
    /\ page.heatmap_data.data[1][9] = 0

\* C9: tip_pct is tip / fare * 100 where that is defined, and 0 where the
\* fare is 0 or missing
C9_TipPctIsDefined ==
    \A r \in Rows(page.derived) :
        IF r.fare_amount = NULL \/ r.fare_amount = 0
        THEN r.tip_pct = 0
        ELSE r.tip_amount # NULL => r.tip_pct = (r.tip_amount * 100) \div r.fare_amount

\* C10: every listed zone has a trip in the filtered table, and there are as
\* many entries as the filtered table has pickup zones (10 at most)
C10_ListedZonesHaveTrips ==
    page.status = "charts" =>
        /\ \A i \in 1..Len(page.top_zones) : page.top_zones[i].trip_count >= 1
        /\ Len(page.top_zones) = Min(TopN, Cardinality(ZonesOf(page.filtered_df)))

====
